---- MODULE Spec2Model ----
(***************************************************************************)
(* Model of the GroupJoin rewrite rule                                     *)
(* (datafusion/optimizer/src/groupby_and_join_to_groupjoin.rs) and of the  *)
(* join-type algebra (datafusion/common/src/join_type.rs).                 *)
(*                                                                         *)
(* Spec          the optimizer driver hands a plan to                      *)
(*               GroupByAndJoinToGroupJoin::rewrite, pass after pass.      *)
(* SpecJoinType  a caller swaps, negates, displays and parses join types.  *)
(* SpecParse     a caller parses a string it was given.                   *)
(***************************************************************************)
EXTENDS Integers, Sequences, FiniteSets, TLC

VARIABLES
    input,      \* the plan the driver was given
    plan,       \* the plan the driver currently holds
    log,        \* what each call of rewrite returned, in order
    jt,         \* the join type the caller holds
    trail,      \* the join types the caller has held, in order
    swapLog,    \* one entry per call of swap: argument, guard, outcome
    side,       \* the join side the caller holds
    sideTrail,  \* the join sides the caller has held, in order
    text,       \* the string the caller holds (user input or a display)
    shown,      \* the join type `text` is the display of, if any
    parsed      \* what each call of from_str was given and returned

vars == <<input, plan, log, jt, trail, swapLog, side, sideTrail, text, shown, parsed>>

rewriteVars == <<input, plan, log>>
joinTypeVars == <<jt, trail, swapLog, side, sideTrail, text, shown, parsed>>

(***************************************************************************)
(* Bounds                                                                  *)
(***************************************************************************)
MaxOn == 2        \* longest equi-key list of a Join
MaxGroup == 2     \* longest grouping list of an Aggregate
MaxPasses == 2    \* calls of rewrite the driver makes on one plan
MaxSwaps == 2     \* calls of swap the caller makes in a row
MaxLen == 3       \* longest string enumerated exhaustively

(***************************************************************************)
(* Option<T>: None is the empty sequence, Some(v) the one-element one.     *)
(***************************************************************************)
None == <<>>
Some(v) == <<v>>

(***************************************************************************)
(* JoinSide and JoinType                                                   *)
(***************************************************************************)
Left == "Left"
Right == "Right"
JoinSide == {Left, Right}

Inner == <<"Inner">>
Outer(s) == <<"Outer", s>>
Full == <<"Full">>
Semi(s) == <<"Semi", s>>
Anti(s) == <<"Anti", s>>
LeftMark == <<"LeftMark">>

\* The nine variants the enum declares.
JoinType ==
    {Inner, Full, LeftMark}
        \cup {Outer(s) : s \in JoinSide}
        \cup {Semi(s) : s \in JoinSide}
        \cup {Anti(s) : s \in JoinSide}

\* The two names the rewrite rule uses: the left outer join it matches and
\* the fused join type it emits.  The enum declares no LeftGroup variant.
JoinType_Left == Outer(Left)
LeftGroup == <<"LeftGroup">>

AllJoinTypes == JoinType \cup {LeftGroup}

JoinConstraint == {"On", "Using"}

(***************************************************************************)
(* Expressions.  Expr equality is derived, i.e. syntactic.                 *)
(***************************************************************************)
Column(n) == [variant |-> "Column", name |-> n]
GroupingSet(n) == [variant |-> "GroupingSet", name |-> n]
AggregateFunction(n) == [variant |-> "AggregateFunction", name |-> n]
BinaryExpr(n) == [variant |-> "BinaryExpr", name |-> n]

LeftColumns == {Column("left.key"), Column("left.other")}
RightColumns == {Column("right.key")}

RECURSIVE SeqsUpTo(_, _)
\* All sequences over S of length at most n.
SeqsUpTo(S, n) ==
    IF n = 0 THEN {<<>>}
    ELSE LET shorter == SeqsUpTo(S, n - 1)
         IN  shorter \cup {Append(q, e) : q \in {r \in shorter : Len(r) = n - 1}, e \in S}

\* Equi-key lists: pairs (left expression, right expression).
OnLists == SeqsUpTo(LeftColumns \X RightColumns, MaxOn)

\* Grouping lists: flat columns, or one GroupingSet on its own.
GroupLists ==
    SeqsUpTo(LeftColumns, MaxGroup) \cup {<<GroupingSet("ROLLUP (left.key)")>>}

AggrLists == {<<>>, <<AggregateFunction("max(right.value)")>>}

Filters == {None, Some(BinaryExpr("left.other > right.value"))}

(***************************************************************************)
(* Plan nodes                                                              *)
(***************************************************************************)
TableScan(n) == [kind |-> "TableScan", table_name |-> n]

MkJoin(l, r, on, f, t, c, s, n, g, a) ==
    [kind |-> "Join", left |-> l, right |-> r, on |-> on, filter |-> f,
     join_type |-> t, join_constraint |-> c, schema |-> s,
     null_equals_null |-> n, group_expr |-> g, aggr_expr |-> a]

MkAggregate(i, g, a, s) ==
    [kind |-> "Aggregate", input |-> i, group_expr |-> g, aggr_expr |-> a,
     schema |-> s]

RECURSIVE Names(_)
Names(es) == IF es = <<>> THEN <<>> ELSE <<Head(es).name>> \o Names(Tail(es))

\* The schema of an Aggregate lists its grouping then its aggregate
\* expressions; the schema of a Join lists the columns of its two inputs.
AggregateSchema(g, a) == Names(g) \o Names(a)
JoinSchema == <<"left.key", "left.other", "right.key", "right.value">>

\* Joins as the plan builder makes them: no grouping or aggregate lists.
PlainJoins ==
    {MkJoin(TableScan("left"), TableScan("right"), on, f, t, c, JoinSchema, n,
            None, None) :
        on \in OnLists, f \in Filters, t \in JoinType, c \in JoinConstraint,
        n \in BOOLEAN}

\* Fused joins a previous run of the rule left in the plan.
GroupJoins ==
    {MkJoin(TableScan("left"), TableScan("right"), on, None, LeftGroup, "On",
            AggregateSchema(<<Column("left.key")>>, a), FALSE,
            Some(<<Column("left.key")>>), Some(a)) :
        on \in {q \in OnLists : Len(q) = 1}, a \in AggrLists}

Joins == PlainJoins \cup GroupJoins

Aggregates ==
    {MkAggregate(i, g, a, AggregateSchema(g, a)) :
        i \in Joins \cup {TableScan("left")}, g \in GroupLists, a \in AggrLists}

\* The plan of the test left_aggregated_and_join_right: max(right.value)
\* grouped by left.key over left LEFT JOIN right ON left.key = right.key.
TestJoin ==
    MkJoin(TableScan("left"), TableScan("right"),
           <<<<Column("left.key"), Column("right.key")>>>>, None, JoinType_Left,
           "On", <<"left.key", "right.key", "right.value">>, FALSE, None, None)

TestPlan ==
    MkAggregate(TestJoin, <<Column("left.key")>>,
                <<AggregateFunction("max(right.value)")>>,
                <<"left.key", "max(right.value)">>)

Plans ==
    Aggregates \cup Joins \cup {TableScan("left"), TableScan("right"), TestPlan}

NoPlan == [kind |-> "NoPlan"]

(***************************************************************************)
(* The rewrite rule                                                        *)
(***************************************************************************)
\* Transformed::no / Transformed::yes, and the panic that unwinds out of
\* rewrite without a return value.
Transformed_no(p) == [panicked |-> FALSE, transformed |-> FALSE, data |-> p]
Transformed_yes(p) == [panicked |-> FALSE, transformed |-> TRUE, data |-> p]
Panicked == [panicked |-> TRUE, transformed |-> FALSE, data |-> NoPlan]

\* Variant: the grouping key is compared with the right side of the pair.
is_group_join_rightKey(group_expr, on) ==
    IF Len(group_expr) = 0 \/ Len(on) = 0
    THEN [panicked |-> TRUE, value |-> FALSE]
    ELSE [panicked |-> FALSE, value |-> (group_expr[1] = on[1][2])]

\* group_expr[0] == on[0].0, indexing a Vec panics when out of bounds.
\* dbg! also writes the comparison to stderr, which is no part of the state.
is_group_join(group_expr, on) ==
    IF Len(group_expr) = 0 \/ Len(on) = 0
    THEN [panicked |-> TRUE, value |-> FALSE]
    ELSE [panicked |-> FALSE, value |-> (group_expr[1] = on[1][1])]

\* Variant: the fused node keeps the schema of the join.
new_plan_joinSchema(aggregate, join) ==
    MkJoin(join.left, join.right, join.on, join.filter, LeftGroup,
           join.join_constraint, join.schema, join.null_equals_null,
           Some(aggregate.group_expr), Some(aggregate.aggr_expr))

\* The node built when the rule fires.
new_plan(aggregate, join) ==
    MkJoin(join.left, join.right, join.on, join.filter, LeftGroup,
           join.join_constraint, aggregate.schema, join.null_equals_null,
           Some(aggregate.group_expr), Some(aggregate.aggr_expr))

\* Variant: the fused node is returned without the Changed flag.
rewrite_firesUnflagged(p) ==
    IF p.kind # "Aggregate" THEN Transformed_no(p)
    ELSE IF ~(p.input.kind = "Join" /\ p.input.join_type = JoinType_Left)
    THEN Transformed_no(p)
    ELSE LET check == is_group_join(p.group_expr, p.input.on)
         IN  IF check.panicked THEN Panicked
             ELSE IF check.value THEN Transformed_no(new_plan(p, p.input))
             ELSE Transformed_no(p)

\* Variant: a failed key check returns the plan flagged Changed.
rewrite_misalignedFlagged(p) ==
    IF p.kind # "Aggregate" THEN Transformed_no(p)
    ELSE IF ~(p.input.kind = "Join" /\ p.input.join_type = JoinType_Left)
    THEN Transformed_no(p)
    ELSE LET check == is_group_join(p.group_expr, p.input.on)
         IN  IF check.panicked THEN Panicked
             ELSE IF check.value THEN Transformed_yes(new_plan(p, p.input))
             ELSE Transformed_yes(p)

rewrite(p) ==
    IF p.kind # "Aggregate" THEN Transformed_no(p)
    ELSE IF ~(p.input.kind = "Join" /\ p.input.join_type = JoinType_Left)
    THEN Transformed_no(p)
    ELSE LET check == is_group_join(p.group_expr, p.input.on)
         IN  IF check.panicked THEN Panicked
             ELSE IF check.value THEN Transformed_yes(new_plan(p, p.input))
             ELSE Transformed_no(p)

(***************************************************************************)
(* The driver: one call of the rule on the plan it holds.                  *)
(***************************************************************************)
HasPanicked == log # <<>> /\ log[Len(log)].panicked

Rewrite ==
    /\ Len(log) < MaxPasses
    /\ ~HasPanicked
    /\ LET r == rewrite(plan)
       IN  /\ log' = Append(log, r)
           /\ plan' = IF r.panicked THEN plan ELSE r.data
    /\ UNCHANGED <<input>>
    /\ UNCHANGED joinTypeVars

Idle ==
    /\ jt = Inner /\ trail = <<jt>> /\ swapLog = <<>>
    /\ side = Left /\ sideTrail = <<side>>
    /\ text = None /\ shown = None /\ parsed = <<>>

Init ==
    /\ input \in Plans
    /\ plan = input
    /\ log = <<>>
    /\ Idle

Next == Rewrite

Spec == Init /\ [][Next]_vars

(***************************************************************************)
(* Strings are sequences of characters.                                    *)
(***************************************************************************)
LowerCase == <<"a", "b", "c", "d", "e", "f", "g", "h", "i", "j", "k", "l", "m",
               "n", "o", "p", "q", "r", "s", "t", "u", "v", "w", "x", "y", "z">>
UpperCase == <<"A", "B", "C", "D", "E", "F", "G", "H", "I", "J", "K", "L", "M",
               "N", "O", "P", "Q", "R", "S", "T", "U", "V", "W", "X", "Y", "Z">>

\* The upper case of one character.  Beside a..z the mapping covers three
\* letters outside ASCII: U+017F (long s) gives S, U+0131 (dotless i) gives
\* I and U+00DF (sharp s) gives the two characters SS.  Every other
\* character is its own upper case.
char_to_uppercase(c) ==
    IF \E k \in 1..26 : LowerCase[k] = c
    THEN <<UpperCase[CHOOSE k \in 1..26 : LowerCase[k] = c]>>
    ELSE IF c = "U+017F" THEN <<"S">>
    ELSE IF c = "U+0131" THEN <<"I">>
    ELSE IF c = "U+00DF" THEN <<"S", "S">>
    ELSE <<c>>

RECURSIVE to_uppercase(_)
to_uppercase(s) ==
    IF s = <<>> THEN <<>>
    ELSE char_to_uppercase(Head(s)) \o to_uppercase(Tail(s))

(***************************************************************************)
(* The join-type algebra                                                   *)
(***************************************************************************)
\* Variant: every side is flipped to Right.
negate_alwaysRight(s) == Right

negate(s) == IF s = Left THEN Right ELSE Left

\* What a call of swap does: it returns a join type, aborts in
\* unreachable!(), or finds no arm for its argument.
Returned(t) == [outcome |-> "returned", value |-> Some(t)]
Aborted == [outcome |-> "aborted", value |-> None]
NoArm == [outcome |-> "no_arm", value |-> None]

swap(t) ==
    CASE t = Inner -> Returned(Inner)
      [] t = Full -> Returned(Full)
      [] t[1] = "Outer" -> Returned(Outer(negate(t[2])))
      [] t[1] = "Semi" -> Returned(Semi(negate(t[2])))
      [] t[1] = "Anti" -> Returned(Anti(negate(t[2])))
      [] t = LeftMark -> Aborted
      [] OTHER -> NoArm

\* Variant: Anti(_) is left out of the pattern.
supports_swap_withoutAnti(t) ==
    t = Inner \/ t = Full \/ t[1] = "Outer" \/ t[1] = "Semi"

supports_swap(t) ==
    t = Inner \/ t = Full \/ t[1] = "Outer" \/ t[1] = "Semi" \/ t[1] = "Anti"

\* Display: the string of the arm that matches, None when no arm does.
\* The match has nine arms, none of them for LeftGroup.
fmt(t) ==
    CASE t = Inner -> Some(<<"I", "n", "n", "e", "r">>)
      [] t = Outer(Left) -> Some(<<"L", "e", "f", "t">>)
      [] t = Outer(Right) -> Some(<<"R", "i", "g", "h", "t">>)
      [] t = Full -> Some(<<"F", "u", "l", "l">>)
      [] t = Semi(Left) -> Some(<<"L", "e", "f", "t", "S", "e", "m", "i">>)
      [] t = Semi(Right) -> Some(<<"R", "i", "g", "h", "t", "S", "e", "m", "i">>)
      [] t = Anti(Left) -> Some(<<"L", "e", "f", "t", "A", "n", "t", "i">>)
      [] t = Anti(Right) -> Some(<<"R", "i", "g", "h", "t", "A", "n", "t", "i">>)
      [] t = LeftMark -> Some(<<"L", "e", "f", "t", "M", "a", "r", "k">>)
      [] OTHER -> None

Ok(t) == [ok |-> TRUE, value |-> t]
Err(e) == [ok |-> FALSE, error |-> e]

\* _not_impl_err!("The join type {s} does not exist or is not implemented")
not_impl_err(s) ==
    [kind |-> "NotImplemented",
     message |-> <<"The join type ", s, " does not exist or is not implemented">>]

\* Variant: the input is matched as given, without upper-casing.
from_str_asGiven(s0) ==
    CASE s0 = <<"I", "N", "N", "E", "R">> -> Ok(Inner)
      [] s0 = <<"L", "E", "F", "T">> -> Ok(Outer(Left))
      [] s0 = <<"R", "I", "G", "H", "T">> -> Ok(Outer(Right))
      [] s0 = <<"F", "U", "L", "L">> -> Ok(Full)
      [] s0 = <<"L", "E", "F", "T", "S", "E", "M", "I">> -> Ok(Semi(Left))
      [] s0 = <<"R", "I", "G", "H", "T", "S", "E", "M", "I">> -> Ok(Semi(Right))
      [] s0 = <<"L", "E", "F", "T", "A", "N", "T", "I">> -> Ok(Anti(Left))
      [] s0 = <<"R", "I", "G", "H", "T", "A", "N", "T", "I">> -> Ok(Anti(Right))
      [] s0 = <<"L", "E", "F", "T", "M", "A", "R", "K">> -> Ok(LeftMark)
      [] OTHER -> Err(not_impl_err(s0))

from_str(s0) ==
    LET s == to_uppercase(s0)
    IN  CASE s = <<"I", "N", "N", "E", "R">> -> Ok(Inner)
           [] s = <<"L", "E", "F", "T">> -> Ok(Outer(Left))
           [] s = <<"R", "I", "G", "H", "T">> -> Ok(Outer(Right))
           [] s = <<"F", "U", "L", "L">> -> Ok(Full)
           [] s = <<"L", "E", "F", "T", "S", "E", "M", "I">> -> Ok(Semi(Left))
           [] s = <<"R", "I", "G", "H", "T", "S", "E", "M", "I">> -> Ok(Semi(Right))
           [] s = <<"L", "E", "F", "T", "A", "N", "T", "I">> -> Ok(Anti(Left))
           [] s = <<"R", "I", "G", "H", "T", "A", "N", "T", "I">> -> Ok(Anti(Right))
           [] s = <<"L", "E", "F", "T", "M", "A", "R", "K">> -> Ok(LeftMark)
           [] OTHER -> Err(not_impl_err(s))

(***************************************************************************)
(* Strings given to the parser                                             *)
(***************************************************************************)
DisplayStrings == {fmt(t)[1] : t \in {u \in AllJoinTypes : fmt(u) # None}}

Characters ==
    {LowerCase[k] : k \in 1..26} \cup {UpperCase[k] : k \in 1..26}
        \cup {"U+017F", "U+0131", "U+00DF", " "}

\* The characters with the same upper case as c.
SameUpper(c) == {d \in Characters : char_to_uppercase(d) = char_to_uppercase(c)}

RECURSIVE CaseVariants(_)
\* Every spelling of w that differs from it only in the case of letters.
CaseVariants(w) ==
    IF w = <<>> THEN {<<>>}
    ELSE {<<c>> \o r : c \in SameUpper(Head(w)), r \in CaseVariants(Tail(w))}

\* Strings that are no spelling of a display string.
OtherStrings ==
    {<<>>,
     <<"l", "e", "f", "t", " ", "s", "e", "m", "i">>, <<" ", "l", "e", "f", "t">>, <<"l", "e", "f", "t", " ">>, <<"L", "e", "f", "t", "G", "r", "o", "u", "p">>, <<"l", "e", "f", "t", "g", "r", "o", "u", "p">>,
     <<"O", "u", "t", "e", "r">>, <<"L", "e", "f", "t", "O", "u", "t", "e", "r">>, <<"c", "r", "o", "s", "s">>, <<"l", "e", "f">>, <<"l", "e", "f", "t", "s">>,
     <<"F", "U", "U+00DF">>, <<"l", "e", "f", "t", "U+00DF", "e", "m", "i">>}

ShortAlphabet == {"l", "L", "e", "E", "f", "t", " "}

InputStrings ==
    UNION {CaseVariants(w) : w \in DisplayStrings}
        \cup OtherStrings
        \cup SeqsUpTo(ShortAlphabet, MaxLen)

(***************************************************************************)
(* The caller of the algebra                                               *)
(***************************************************************************)
SwapStopped ==
    swapLog # <<>> /\ swapLog[Len(swapLog)].outcome # "returned"

Swap ==
    /\ Len(swapLog) < MaxSwaps
    /\ ~SwapStopped
    /\ LET r == swap(jt)
       IN  /\ swapLog' = Append(swapLog,
                 [arg |-> jt, guard |-> supports_swap(jt),
                  outcome |-> r.outcome, value |-> r.value])
           /\ IF r.outcome = "returned"
              THEN jt' = r.value[1] /\ trail' = Append(trail, r.value[1])
              ELSE UNCHANGED <<jt, trail>>
    /\ UNCHANGED <<side, sideTrail, text, shown, parsed>>
    /\ UNCHANGED rewriteVars

Negate ==
    /\ Len(sideTrail) <= MaxSwaps
    /\ side' = negate(side)
    /\ sideTrail' = Append(sideTrail, side')
    /\ UNCHANGED <<jt, trail, swapLog, text, shown, parsed>>
    /\ UNCHANGED rewriteVars

Display ==
    /\ shown # Some(jt)
    /\ text' = fmt(jt)
    /\ shown' = Some(jt)
    /\ UNCHANGED <<jt, trail, swapLog, side, sideTrail, parsed>>
    /\ UNCHANGED rewriteVars

Parse ==
    /\ text # None
    /\ IF parsed = <<>> THEN TRUE ELSE parsed[Len(parsed)].given # text[1]
    /\ parsed' = Append(parsed,
           [given |-> text[1], origin |-> shown, result |-> from_str(text[1])])
    /\ UNCHANGED <<jt, trail, swapLog, side, sideTrail, text, shown>>
    /\ UNCHANGED rewriteVars

NoRewrite == input = NoPlan /\ plan = NoPlan /\ log = <<>>

InitJoinType ==
    /\ jt \in AllJoinTypes
    /\ trail = <<jt>>
    /\ swapLog = <<>>
    /\ side \in JoinSide
    /\ sideTrail = <<side>>
    /\ text = None
    /\ shown = None
    /\ parsed = <<>>
    /\ NoRewrite

NextJoinType == Swap \/ Negate \/ Display \/ Parse

SpecJoinType == InitJoinType /\ [][NextJoinType]_vars

InitParse ==
    /\ jt = Inner /\ trail = <<jt>> /\ swapLog = <<>>
    /\ side = Left /\ sideTrail = <<side>>
    /\ text \in {Some(s) : s \in InputStrings}
    /\ shown = None
    /\ parsed = <<>>
    /\ NoRewrite

NextParse == Parse

SpecParse == InitParse /\ [][NextParse]_vars

(***************************************************************************)
(* Properties of the rewrite rule                                          *)
(***************************************************************************)
\* The plan call number i of rewrite was given.
Before(i) == IF i = 1 THEN input ELSE log[i - 1].data

Calls == 1..Len(log)

IsAggregateOverJoin(p) == p.kind = "Aggregate" /\ p.input.kind = "Join"

IsAggregateOverLeftJoin(p) ==
    IsAggregateOverJoin(p) /\ p.input.join_type = Outer(Left)

\* The comparison the rule makes: first grouping expression against the
\* left expression of the first equi-key pair, both present.
FirstKeysEqual(p) ==
    /\ Len(p.group_expr) > 0
    /\ Len(p.input.on) > 0
    /\ p.group_expr[1] = p.input.on[1][1]

ContainsLeftGroup(p) ==
    \/ p.kind = "Join" /\ p.join_type = LeftGroup
    \/ p.kind = "Aggregate" /\ p.input.kind = "Join"
         /\ p.input.join_type = LeftGroup

\* The four preconditions for the rule to fire.
Precondition1(p) == IsAggregateOverJoin(p)
Precondition2(p) == p.input.join_type = Outer(Left)
Precondition3(p) ==
    \A k \in 1..Len(p.group_expr) :
        \E j \in 1..Len(p.input.on) : p.group_expr[k] = p.input.on[j][1]
Precondition4(p) ==
    /\ Len(p.group_expr) > 0
    /\ \A k \in 1..Len(p.group_expr) : p.group_expr[k].variant # "GroupingSet"

AllPreconditions(p) ==
    Precondition1(p) /\ Precondition2(p) /\ Precondition3(p) /\ Precondition4(p)

C2_FiresIffPreconditions ==
    \A i \in Calls :
        LET p == Before(i)
        IN  ~ContainsLeftGroup(p) =>
                ((~log[i].panicked /\ ContainsLeftGroup(log[i].data))
                    <=> AllPreconditions(p))

\* C3: rewrite always completes with Changed or Unchanged; it never
\* returns an error and never aborts.
C3_NeverAborts == \A i \in Calls : ~log[i].panicked

\* C4: whenever rewrite returns Unchanged, the returned plan is equal to
\* the plan it was given.
C4_UnchangedIsInput ==
    \A i \in Calls :
        (~log[i].panicked /\ ~log[i].transformed) => log[i].data = Before(i)

C4_Witness ==
    /\ Len(log) >= 1
    /\ IsAggregateOverLeftJoin(input)
    /\ ~log[1].panicked
    /\ ~log[1].transformed

\* C5: applying rewrite to the output of rewrite returns that same plan,
\* flagged Unchanged.
C5_Idempotent ==
    \A i \in Calls :
        i >= 2 => log[i] = Transformed_no(log[i - 1].data)

C5_Witness ==
    /\ Len(log) >= 2
    /\ log[1].transformed
    /\ ~log[2].panicked

Parses == 1..Len(parsed)
Swaps == 1..Len(swapLog)

\* The ten join types of the display table: the nine variants of the enum
\* and LeftGroup.
TenJoinTypes ==
    {Inner, Outer(Left), Outer(Right), Full, Semi(Left), Semi(Right),
     Anti(Left), Anti(Right), LeftMark, LeftGroup}

\* C7: display followed by parse is the identity on each of the ten join
\* types: every one of them has a display string, and parsing that string
\* succeeds and gives the join type back.
C7_DisplayParseRoundTrip ==
    /\ (shown # None /\ shown[1] \in TenJoinTypes) => text # None
    /\ \A i \in Parses :
          parsed[i].origin # None =>
              parsed[i].result = Ok(parsed[i].origin[1])

\* The join types whose display string has the same upper case as u.
DisplayedAs(u) ==
    {t \in AllJoinTypes : fmt(t) # None /\ to_uppercase(fmt(t)[1]) = u}

C9_SwapInvolution ==
    /\ \A i \in Swaps :
          swapLog[i].guard =>
              /\ swapLog[i].outcome = "returned"
              /\ supports_swap(swapLog[i].value[1])
    /\ \A i \in Swaps :
          (i >= 2 /\ swapLog[i - 1].guard) =>
              /\ swapLog[i].arg = swapLog[i - 1].value[1]
              /\ swapLog[i].value = Some(swapLog[i - 1].arg)
    /\ \A k \in 1..Len(sideTrail) :
          k >= 3 => sideTrail[k] = sideTrail[k - 2]

C9_Witness ==
    /\ Len(swapLog) >= 2
    /\ swapLog[1].arg = Semi(Right)
    /\ swapLog[2].outcome = "returned"
    /\ Len(sideTrail) >= 3

\* C10: supports_swap is false for LeftMark and true for Inner, Full,
\* Outer(_), Semi(_) and Anti(_); swap aborts exactly on the variants for
\* which supports_swap is false and returns a join type on all others.
C10_GuardIsExact ==
    \A i \in Swaps :
        swapLog[i].arg \in JoinType =>
            /\ swapLog[i].guard = (swapLog[i].arg # LeftMark)
            /\ (swapLog[i].outcome = "aborted") = ~swapLog[i].guard
            /\ (swapLog[i].outcome = "returned") = swapLog[i].guard
            /\ swapLog[i].outcome = "returned" =>
                   swapLog[i].value[1] \in JoinType

C10_Witness ==
    /\ Len(swapLog) = 1
    /\ swapLog[1].arg = LeftMark
    /\ ~swapLog[1].guard
    /\ swapLog[1].outcome = "aborted"

====
